---- MODULE Spec2Model ----
(***************************************************************************)
(* A model of the notebook Data_Wrangling_Sample.ipynb: the cells run in   *)
(* order, one statement per step.  Python variables are the fields of env; *)
(* a variable that names a dataframe holds a reference into heap, so that  *)
(* in-place updates, rebinding and copies are told apart.                  *)
(*                                                                         *)
(* A dataframe is a record                                                 *)
(*    index   : the names of the index levels, in order                    *)
(*    columns : the names of the columns, in order                         *)
(*    rows    : the rows in order, each a function from the index and      *)
(*              column names to the cell's value                           *)
(*    meta    : the TimeSeriesDataFrame metadata (empty for a DataFrame)   *)
(*                                                                         *)
(* Timestamps are whole seconds since 1970-01-01 00:00:00.  Prices are in  *)
(* cents, so that sums of revenue are exact.                               *)
(***************************************************************************)
EXTENDS Integers, Sequences, FiniteSets, TLC

VARIABLES pc, csv, heap, env

vars == <<pc, csv, heap, env>>

(***************************************************************************)
(* Bounds of the model.                                                    *)
(***************************************************************************)
\* Most data rows of the sales file in the specification Spec.
MaxRows == 3
\* The chunked load is checked on files of up to MaxChunks full chunks ...
MaxChunks == 2
\* ... whose length is within Slack rows of a multiple of chunk_size.
Slack == 5
\* Most daily records the weather accessor returns for one year.
MaxDays == 2

(***************************************************************************)
(* Sequences.                                                              *)
(***************************************************************************)
Range(s) == {s[i] : i \in DOMAIN s}

RECURSIVE SeqSum(_)
SeqSum(s) == IF s = <<>> THEN 0 ELSE Head(s) + SeqSum(Tail(s))

RECURSIVE Flatten(_)
Flatten(ss) == IF ss = <<>> THEN <<>> ELSE Head(ss) \o Flatten(Tail(ss))

Min(a, b) == IF a <= b THEN a ELSE b

(***************************************************************************)
(* Timestamps: pd.to_datetime, timedelta, strftime.                        *)
(***************************************************************************)
\* Days from 1970-01-01 to the civil date y-m-d (proleptic Gregorian).
DaysFromCivil(y, m, d) ==
    LET yy  == IF m <= 2 THEN y - 1 ELSE y
        era == yy \div 400
        yoe == yy - era * 400
        mp  == (m + 9) % 12
        doy == (153 * mp + 2) \div 5 + d - 1
        doe == yoe * 365 + yoe \div 4 - yoe \div 100 + doy
    IN  era * 146097 + doe - 719468

\* The civil date of a day number, as <<year, month, day>>.
CivilFromDays(z) ==
    LET zz  == z + 719468
        era == zz \div 146097
        doe == zz - era * 146097
        yoe == (doe - doe \div 1460 + doe \div 36524 - doe \div 146096) \div 365
        doy == doe - (365 * yoe + yoe \div 4 - yoe \div 100)
        mp  == (5 * doy + 2) \div 153
        d   == doy - (153 * mp + 2) \div 5 + 1
        m   == IF mp < 10 THEN mp + 3 ELSE mp - 9
        y   == yoe + era * 400
    IN  <<IF m <= 2 THEN y + 1 ELSE y, m, d>>

SecondsPerDay == 86400

\* pd.to_datetime('Y-M-D h:m:s'): the date string is given by its fields.
to_datetime(Y, M, D, h, m, s) ==
    DaysFromCivil(Y, M, D) * SecondsPerDay + h * 3600 + m * 60 + s

\* timedelta(weeks=n), in seconds.
timedelta(n) == n * 7 * SecondsPerDay

\* Timedelta.days: whole days, rounded down (also for a negative delta).
days(delta) == delta \div SecondsPerDay

weekZeroStart == to_datetime(1989, 9, 7, 0, 0, 0)
weekZeroEnd == to_datetime(1989, 9, 13, 23, 59, 59)

\* The decimal digits of n, zero-padded to width w.
RECURSIVE Digits(_, _)
Digits(n, w) == IF w = 0 THEN <<>> ELSE Append(Digits(n \div 10, w - 1), n % 10)

\* Timestamp.strftime('%Y%m'): six digits.
strftime_Ym(ts) ==
    LET c == CivilFromDays(ts \div SecondsPerDay)
    IN  Digits(c[1], 4) \o Digits(c[2], 2)

\* Partial-string bounds of a month: its first and its last second.
MonthStart(y, m) == to_datetime(y, m, 1, 0, 0, 0)
MonthEnd(y, m) ==
    (IF m = 12 THEN MonthStart(y + 1, 1) ELSE MonthStart(y, m + 1)) - 1

(***************************************************************************)
(* Dataframes, the heap and the variables.                                 *)
(***************************************************************************)
\* The name of an unnamed index level (a RangeIndex has one).
None == "None"

NoMeta == [time_colname |-> None, grain_colnames |-> <<>>,
           group_colnames |-> <<>>, ts_value_colname |-> None]

DataFrame(index, columns, rows) ==
    [index |-> index, columns |-> columns, rows |-> rows, meta |-> NoMeta]

\* Allocation of a new object: its reference is Len(heap) + 1.
NewRef == Len(heap) + 1
Alloc(obj) == Append(heap, obj)

\* name = value
Bind(e, name, value) ==
    [n \in DOMAIN e \cup {name} |-> IF n = name THEN value ELSE e[n]]

\* The object a variable refers to.
Obj(name) == heap[env[name]]

Bound(name) == name \in DOMAIN env

\* The values of a row at the given names, in order.
Key(row, names) == [i \in DOMAIN names |-> row[names[i]]]

IndexValues(df) == [i \in DOMAIN df.rows |-> Key(df.rows[i], df.index)]

\* df[c] = f[row] for every row; a new column goes last.
SetColumn(df, c, f) ==
    [df EXCEPT !.columns = IF c \in Range(df.columns) THEN @ ELSE Append(@, c),
               !.rows = [i \in DOMAIN df.rows |->
                            LET r == df.rows[i]
                            IN  [n \in DOMAIN r \cup {c} |->
                                    IF n = c THEN f[r] ELSE r[n]]]]

\* df[[c1, c2, ...]]: the index stays, the columns are the ones named.
SelectColumns(df, cols) ==
    [df EXCEPT !.columns = cols,
               !.rows = [i \in DOMAIN df.rows |->
                            [n \in Range(df.index) \cup Range(cols) |->
                                df.rows[i][n]]]]

(***************************************************************************)
(* The sales file.                                                         *)
(***************************************************************************)
CsvColumns == <<"store", "brand", "week", "logmove", "price", "INCOME">>

Stores == {2, 5}
Brands == {"minute.maid", "tropicana"}
\* Week offsets whose last day is 1990-05-30, 1990-06-20, 1990-08-01, 1990-10-03.
Weeks == {37, 40, 46, 55}

\* One data row per (store, brand, week); the measures differ from row to row.
CsvRow(store, brand, week) ==
    [store |-> store, brand |-> brand, week |-> week,
     logmove |-> (week + store) % 4,
     price |-> 150 + 25 * ((week + IF brand = "tropicana" THEN 2 ELSE 0) % 5),
     INCOME |-> 10 + store]

CsvRows == {CsvRow(s, b, w) : s \in Stores, b \in Brands, w \in Weeks}

\* The labels the notebook names are in the file, as they are in the
\* packaged dominicks_oj.csv: store 5 in week 40, store 2 in August 1990,
\* and both brands.
HasLabels(file) ==
    /\ \E r \in Range(file) : r.store = 5 /\ r.week = 40
    /\ \E r \in Range(file) : r.store = 2 /\ r.week = 46
    /\ \A b \in Brands : \E r \in Range(file) : r.brand = b

\* No two rows of the file have the same store, brand and week.
DistinctKeys(file) == \A i, j \in DOMAIN file : file[i] = file[j] => i = j

SmallFiles ==
    UNION {{f \in [1..n -> CsvRows] : DistinctKeys(f) /\ HasLabels(f)} : n \in 1..MaxRows}

\* A long file: row i is told from every other row by its week.
LongFile(n) ==
    [i \in 1..n |-> [CsvRow(IF i % 2 = 0 THEN 2 ELSE 5,
                            IF i % 3 = 0 THEN "tropicana" ELSE "minute.maid",
                            40) EXCEPT !.week = i]]

chunk_size == 500

LongLengths ==
    {n \in 1..(MaxChunks * chunk_size + Slack) :
        \E k \in 0..MaxChunks : n - k * chunk_size \in (-Slack)..Slack}

LongFiles == {LongFile(n) : n \in LongLengths}

(***************************************************************************)
(* Cell "Load Data and Explore".                                           *)
(***************************************************************************)
\* pd.read_csv: rows lo+1 .. hi of the file, labelled by their position.
read_csv_rows(file, lo, hi) ==
    DataFrame(<<None>>, CsvColumns,
              [i \in 1..(hi - lo) |->
                  [n \in Range(CsvColumns) \cup {None} |->
                      IF n = None THEN lo + i - 1 ELSE file[lo + i][n]]])

\* whole_df = pd.read_csv(csv_path, low_memory = False)
ReadWhole ==
    /\ pc = "read_csv"
    /\ heap' = Alloc(read_csv_rows(csv, 0, Len(csv)))
    /\ env' = Bind(env, "whole_df", NewRef)
    /\ pc' = "chunks_init"
    /\ UNCHANGED csv

\* chunk_size = 500; chunks = []; the reader of the for loop is opened.
InitChunks ==
    /\ pc = "chunks_init"
    /\ env' = Bind(Bind(env, "chunks", <<>>), "reader", 0)
    /\ pc' = "for_chunk"
    /\ UNCHANGED <<csv, heap>>

\* A reader that loses the last row of every full chunk.
get_chunk_losing_boundary_row(file, pos, size) ==
    read_csv_rows(file, pos, Min(pos + size - 1, Len(file)))

\* The next chunk of the reader at position pos: at most size rows.
get_chunk(file, pos, size) == read_csv_rows(file, pos, Min(pos + size, Len(file)))

\* for chunk in pd.read_csv(csv_path, chunksize=chunk_size): chunks.append(chunk)
NextChunk ==
    /\ pc = "for_chunk"
    /\ env.reader < Len(csv)
    /\ heap' = Alloc(get_chunk(csv, env.reader, chunk_size))
    /\ env' = Bind(Bind(env, "chunks", Append(env.chunks, NewRef)),
                   "reader", Min(env.reader + chunk_size, Len(csv)))
    /\ UNCHANGED <<pc, csv>>

\* The reader is exhausted: the loop ends.
EndLoop ==
    /\ pc = "for_chunk"
    /\ env.reader >= Len(csv)
    /\ pc' = "concat"
    /\ UNCHANGED <<csv, heap, env>>

\* pd.concat(objs, axis=0): the rows of the frames one after the other,
\* each with its own label.
concat(objs) ==
    [objs[1] EXCEPT !.rows = Flatten([i \in DOMAIN objs |-> objs[i].rows])]

\* whole_df_chunked = pd.concat(chunks, axis=0)
ConcatChunks ==
    /\ pc = "concat"
    /\ env.chunks # <<>>
    /\ heap' = Alloc(concat([i \in DOMAIN env.chunks |-> heap[env.chunks[i]]]))
    /\ env' = Bind(env, "whole_df_chunked", NewRef)
    /\ pc' = "quantity"
    /\ UNCHANGED csv

LoadCell == ReadWhole \/ InitChunks \/ NextChunk \/ EndLoop \/ ConcatChunks

(***************************************************************************)
(* Statements that read columns.  A statement that names a column or an    *)
(* index level the table does not have raises KeyError, and the run stops. *)
(***************************************************************************)
Names(df) == Range(df.index) \cup Range(df.columns)

\* For each statement that names columns or index levels of a table: the
\* variable of the table and the names.
Reads ==
    [quantity               |-> [df |-> "whole_df", names |-> {"logmove"}],
     WeekFirstDay           |-> [df |-> "whole_df", names |-> {"week"}],
     WeekLastDay            |-> [df |-> "whole_df", names |-> {"week"}],
     head_whole_df          |-> [df |-> "whole_df",
                                 names |-> {"store", "brand", "WeekLastDay", "quantity"}],
     TimeSeriesDataFrame    |-> [df |-> "whole_df",
                                 names |-> {"store", "brand", "WeekLastDay", "quantity"}],
     get_level_values_brand |-> [df |-> "whole_tsdf", names |-> {"brand"}],
     head_whole_tsdf        |-> [df |-> "whole_tsdf", names |-> {"quantity", "price"}],
     purchimpact            |-> [df |-> "whole_tsdf", names |-> {"INCOME", "price"}],
     isprofitable           |-> [df |-> "whole_tsdf", names |-> {"price"}],
     taxamount              |-> [df |-> "whole_tsdf", names |-> {"price"}],
     drop                   |-> [df |-> "whole_tsdf", names |-> {"defaultcol", "isprofitable"}],
     subset                 |-> [df |-> "whole_tsdf", names |-> {"price", "quantity"}],
     groupby                |-> [df |-> "whole_tsdf", names |-> {"store", "brand"}],
     revenue                |-> [df |-> "whole_tsdf", names |-> {"price", "quantity"}],
     groupby_grain_sum      |-> [df |-> "whole_tsdf", names |-> {"revenue"}],
     groupby_group          |-> [df |-> "whole_tsdf", names |-> {"revenue"}],
     strftime               |-> [df |-> "df_tmp", names |-> {"yearmonth"}],
     monthly_total          |-> [df |-> "df_tmp", names |-> {"store", "yearmonth", "revenue"}]]

\* The table of statement p has the names the statement reads.
HasNames(p) == Reads[p].names \subseteq Names(Obj(Reads[p].df))

Raise(error) == pc' = error /\ UNCHANGED <<csv, heap, env>>

\* An update in place of the object a variable refers to.
Update(name, df) == heap' = [heap EXCEPT ![env[name]] = df]

(***************************************************************************)
(* Cell "Working with Date strings".                                       *)
(***************************************************************************)
\* expround(x) = math.floor(math.exp(x) + 0.5), on the logarithms of the
\* model's files: exp(0) = 1, exp(1) = 2.72, exp(2) = 7.39, exp(3) = 20.09.
expround(x) == CASE x = 0 -> 1 [] x = 1 -> 3 [] x = 2 -> 7 [] x = 3 -> 20

\* lambda n: weekZeroStart + timedelta(weeks=n)
WeekFirstDay(n) == weekZeroStart + timedelta(n)

\* lambda n: weekZeroEnd + timedelta(weeks=n)
WeekLastDay(n) == weekZeroEnd + timedelta(n)

\* whole_df['quantity'] = whole_df['logmove'].apply(expround)
AddQuantity ==
    /\ pc = "quantity"
    /\ IF HasNames("quantity")
       THEN /\ Update("whole_df", SetColumn(Obj("whole_df"), "quantity",
                                            [r \in Range(Obj("whole_df").rows) |-> expround(r.logmove)]))
            /\ pc' = "WeekFirstDay"
            /\ UNCHANGED <<csv, env>>
       ELSE Raise("KeyError")

\* whole_df['WeekFirstDay'] = whole_df['week'].apply(...)
AddWeekFirstDay ==
    /\ pc = "WeekFirstDay"
    /\ IF HasNames("WeekFirstDay")
       THEN /\ Update("whole_df", SetColumn(Obj("whole_df"), "WeekFirstDay",
                                            [r \in Range(Obj("whole_df").rows) |-> WeekFirstDay(r.week)]))
            /\ pc' = "WeekLastDay"
            /\ UNCHANGED <<csv, env>>
       ELSE Raise("KeyError")

\* whole_df['WeekLastDay'] = whole_df['week'].apply(...)
AddWeekLastDay ==
    /\ pc = "WeekLastDay"
    /\ IF HasNames("WeekLastDay")
       THEN /\ Update("whole_df", SetColumn(Obj("whole_df"), "WeekLastDay",
                                            [r \in Range(Obj("whole_df").rows) |-> WeekLastDay(r.week)]))
            /\ pc' = "head_whole_df"
            /\ UNCHANGED <<csv, env>>
       ELSE Raise("KeyError")

(***************************************************************************)
(* Cell "Create TimeSeriesDataframe".                                      *)
(***************************************************************************)
\* A constructor that puts the grain columns before the time column.
TimeSeriesDataFrame_grain_first(df, grain_colnames, time_colname, ts_value_colname, group_colnames) ==
    LET index   == grain_colnames \o <<time_colname>>
        columns == SelectSeq(df.columns, LAMBDA c : c \notin Range(index))
    IN  [index   |-> index,
         columns |-> columns,
         rows    |-> [i \in DOMAIN df.rows |->
                         [n \in Range(index) \cup Range(columns) |->
                             df.rows[i][n]]],
         meta    |-> [time_colname |-> time_colname,
                      grain_colnames |-> grain_colnames,
                      group_colnames |-> group_colnames,
                      ts_value_colname |-> ts_value_colname]]

\* TimeSeriesDataFrame(df, grain_colnames, time_colname, ts_value_colname,
\* group_colnames): the time column and the grain columns, in the order
\* given, become the index; the other columns stay, in their order.
TimeSeriesDataFrame(df, grain_colnames, time_colname, ts_value_colname, group_colnames) ==
    LET index   == <<time_colname>> \o grain_colnames
        columns == SelectSeq(df.columns, LAMBDA c : c \notin Range(index))
    IN  [index   |-> index,
         columns |-> columns,
         rows    |-> [i \in DOMAIN df.rows |->
                         [n \in Range(index) \cup Range(columns) |->
                             df.rows[i][n]]],
         meta    |-> [time_colname |-> time_colname,
                      grain_colnames |-> grain_colnames,
                      group_colnames |-> group_colnames,
                      ts_value_colname |-> ts_value_colname]]

\* whole_tsdf = TimeSeriesDataFrame(whole_df, ...)
CreateTSDF ==
    /\ pc = "TimeSeriesDataFrame"
    /\ IF HasNames("TimeSeriesDataFrame")
       THEN /\ heap' = Alloc(TimeSeriesDataFrame(Obj("whole_df"),
                                 <<"store", "brand">>, "WeekLastDay",
                                 "quantity", <<"store">>))
            /\ env' = Bind(env, "whole_tsdf", NewRef)
            /\ pc' = "get_level_values_brand"
            /\ UNCHANGED csv
       ELSE Raise("KeyError")

(***************************************************************************)
(* Statements that only show columns.                                      *)
(***************************************************************************)
ShowSteps ==
    [head_whole_df |-> "TimeSeriesDataFrame",
     get_level_values_brand |-> "head_whole_tsdf",
     head_whole_tsdf |-> "defaultcol"]

\* whole_df[['store','brand','WeekLastDay', 'quantity']].head(),
\* whole_tsdf.index.get_level_values('brand'),
\* whole_tsdf[['quantity', 'price']].head()
Show ==
    /\ pc \in DOMAIN ShowSteps
    /\ IF HasNames(pc)
       THEN pc' = ShowSteps[pc] /\ UNCHANGED <<csv, heap, env>>
       ELSE Raise("KeyError")

(***************************************************************************)
(* Cell "Changing shape of TimeSeriesDataFrame".                           *)
(***************************************************************************)
\* whole_tsdf['defaultcol'] = 'Default'
AddDefaultcol ==
    /\ pc = "defaultcol"
    /\ Update("whole_tsdf", SetColumn(Obj("whole_tsdf"), "defaultcol",
                                      [r \in Range(Obj("whole_tsdf").rows) |-> "Default"]))
    /\ pc' = "purchimpact"
    /\ UNCHANGED <<csv, env>>

\* whole_tsdf['purchimpact'] = whole_tsdf['INCOME']/whole_tsdf['price']:
\* the quotient is kept as a fraction, with the price in dollars.
AddPurchimpact ==
    /\ pc = "purchimpact"
    /\ IF HasNames("purchimpact")
       THEN /\ Update("whole_tsdf",
                      SetColumn(Obj("whole_tsdf"), "purchimpact",
                                [r \in Range(Obj("whole_tsdf").rows) |-> [num |-> r.INCOME * 100, den |-> r.price]]))
            /\ pc' = "isprofitable"
            /\ UNCHANGED <<csv, env>>
       ELSE Raise("KeyError")

\* whole_tsdf['isprofitable'] = np.where(whole_tsdf['price']>=2.0, True, False)
AddIsprofitable ==
    /\ pc = "isprofitable"
    /\ IF HasNames("isprofitable")
       THEN /\ Update("whole_tsdf", SetColumn(Obj("whole_tsdf"), "isprofitable",
                                              [r \in Range(Obj("whole_tsdf").rows) |-> r.price >= 200]))
            /\ pc' = "taxamount"
            /\ UNCHANGED <<csv, env>>
       ELSE Raise("KeyError")

\* calc_tax(price) = price * 0.1, in hundredths of a cent (the price is in cents).
calc_tax(price) == price * 10

\* whole_tsdf['taxamount'] = whole_tsdf.price.apply(calc_tax)
AddTaxamount ==
    /\ pc = "taxamount"
    /\ IF HasNames("taxamount")
       THEN /\ Update("whole_tsdf", SetColumn(Obj("whole_tsdf"), "taxamount",
                                              [r \in Range(Obj("whole_tsdf").rows) |-> calc_tax(r.price)]))
            /\ pc' = "drop"
            /\ UNCHANGED <<csv, env>>
       ELSE Raise("KeyError")

\* A drop that takes the price column along.
drop_price_too(df, labels) ==
    [df EXCEPT !.columns = SelectSeq(@, LAMBDA c : c \notin labels \cup {"price"}),
               !.rows = [i \in DOMAIN df.rows |->
                            [n \in DOMAIN df.rows[i] \ (labels \cup {"price"}) |->
                                df.rows[i][n]]]]

\* df.drop(labels, axis=1): a new frame without the columns named.
drop(df, labels) ==
    [df EXCEPT !.columns = SelectSeq(@, LAMBDA c : c \notin labels),
               !.rows = [i \in DOMAIN df.rows |->
                            [n \in DOMAIN df.rows[i] \ labels |-> df.rows[i][n]]]]

\* whole_tsdf = whole_tsdf.drop(['defaultcol', 'isprofitable'], axis=1)
DropColumns ==
    /\ pc = "drop"
    /\ IF HasNames("drop")
       THEN /\ heap' = Alloc(drop(Obj("whole_tsdf"), {"defaultcol", "isprofitable"}))
            /\ env' = Bind(env, "whole_tsdf", NewRef)
            /\ pc' = "subset"
            /\ UNCHANGED csv
       ELSE Raise("KeyError")

\* whole_tsdf_subset = whole_tsdf[['price', 'quantity']]
Subset ==
    /\ pc = "subset"
    /\ IF HasNames("subset")
       THEN /\ heap' = Alloc(SelectColumns(Obj("whole_tsdf"), <<"price", "quantity">>))
            /\ env' = Bind(env, "whole_tsdf_subset", NewRef)
            /\ pc' = "sort_index"
            /\ UNCHANGED csv
       ELSE Raise("KeyError")

(***************************************************************************)
(* Cells "Slicers with TimeSeriesDataFrame".                               *)
(***************************************************************************)
\* The order of the brand names as strings.
StrRank(str) ==
    CASE str = "dominicks" -> 1 [] str = "minute.maid" -> 2 [] str = "tropicana" -> 3

RECURSIVE SeqLess(_, _)
SeqLess(a, b) ==
    IF b = <<>> THEN FALSE
    ELSE IF a = <<>> THEN TRUE
    ELSE IF Head(a) # Head(b) THEN Head(a) < Head(b)
    ELSE SeqLess(Tail(a), Tail(b))

\* The order of the values of one index level: brands and formatted months
\* as strings, stores and timestamps as numbers.
LevelLess(name, a, b) ==
    IF name = "brand" THEN StrRank(a) < StrRank(b)
    ELSE IF name = "yearmonth" THEN SeqLess(a, b)
    ELSE a < b

\* The lexicographic order of index keys over the levels names.
RECURSIVE KeyLessFrom(_, _, _, _)
KeyLessFrom(names, k1, k2, i) ==
    IF i > Len(names) THEN FALSE
    ELSE IF LevelLess(names[i], k1[i], k2[i]) THEN TRUE
    ELSE IF k1[i] = k2[i] THEN KeyLessFrom(names, k1, k2, i + 1)
    ELSE FALSE

KeyLess(names, k1, k2) == KeyLessFrom(names, k1, k2, 1)

\* The rows are in non-decreasing order of their keys over names.
IsSortedBy(rows, names) ==
    \A i \in 1..(Len(rows) - 1) :
        ~KeyLess(names, Key(rows[i + 1], names), Key(rows[i], names))

\* row inserted into the sorted rows, after the rows that are not greater.
RECURSIVE Insert(_, _, _)
Insert(sorted, row, names) ==
    IF sorted = <<>> THEN <<row>>
    ELSE IF KeyLess(names, Key(row, names), Key(Head(sorted), names))
         THEN <<row>> \o sorted
         ELSE <<Head(sorted)>> \o Insert(Tail(sorted), row, names)

RECURSIVE SortRows(_, _)
SortRows(rows, names) ==
    IF rows = <<>> THEN <<>>
    ELSE Insert(SortRows(SubSeq(rows, 1, Len(rows) - 1), names),
                rows[Len(rows)], names)

\* A frame whose sort_index call left the rows as they were.
sort_index_not_in_place(df) == df

\* df.sort_index(): the rows in the lexicographic order of the index.
sort_index(df) == [df EXCEPT !.rows = SortRows(@, df.index)]

\* whole_tsdf.sort_index(inplace=True)
SortIndex ==
    /\ pc = "sort_index"
    /\ Update("whole_tsdf", sort_index(Obj("whole_tsdf")))
    /\ pc' = "loc_singleweek"
    /\ UNCHANGED <<csv, env>>

\* MultiIndex.lexsort_depth: the number of leading levels the rows are
\* sorted by.
lexsort_depth(df) ==
    CHOOSE k \in 0..Len(df.index) :
        /\ IsSortedBy(df.rows, SubSeq(df.index, 1, k))
        /\ \A j \in (k + 1)..Len(df.index) :
              ~IsSortedBy(df.rows, SubSeq(df.index, 1, j))

\* The slice criteria of one index level.
All == [kind |-> "all"]
Label(v) == [kind |-> "label", v |-> v]
Slice(lo, hi) == [kind |-> "slice", lo |-> lo, hi |-> hi]
Labels(vs) == [kind |-> "list", vs |-> vs]

Matches(c, v) ==
    CASE c.kind = "all" -> TRUE
      [] c.kind = "label" -> v = c.v
      [] c.kind = "slice" -> c.lo <= v /\ v <= c.hi
      [] c.kind = "list" -> v \in c.vs

\* A level without a criterion is sliced by the first label of the level.
Criterion_first_label(df, crit, i) ==
    IF i <= Len(crit) THEN crit[i] ELSE Label(df.rows[1][df.index[i]])

\* The criterion of level i: a level the slice does not name gets the
\* null slice ':'.
Criterion(df, crit, i) == IF i <= Len(crit) THEN crit[i] ELSE All

\* df.loc[pd.IndexSlice[crit], :]: the rows that match the criterion of
\* every level, in their order.
loc(df, crit) ==
    [df EXCEPT !.rows =
        SelectSeq(@, LAMBDA r : \A i \in DOMAIN df.index :
                                   Matches(Criterion(df, crit, i), r[df.index[i]]))]

\* A range or a list on a level needs the index sorted down to that level.
NeedsSort(df, crit) ==
    \E i \in DOMAIN crit : crit[i].kind \in {"slice", "list"} /\ i > lexsort_depth(df)

\* A single label that is not in its level cannot be looked up.
MissingLabel(df, crit) ==
    \E i \in DOMAIN crit :
        crit[i].kind = "label" /\ \A r \in Range(df.rows) : r[df.index[i]] # crit[i].v

\* target = whole_tsdf.loc[pd.IndexSlice[crit], :]
LocStmt(from, to, target, crit) ==
    /\ pc = from
    /\ IF NeedsSort(Obj("whole_tsdf"), crit) THEN Raise("UnsortedIndexError")
       ELSE IF MissingLabel(Obj("whole_tsdf"), crit) THEN Raise("KeyError")
       ELSE /\ heap' = Alloc(loc(Obj("whole_tsdf"), crit))
            /\ env' = Bind(env, target, NewRef)
            /\ pc' = to
            /\ UNCHANGED csv

\* df.loc[(label, ...), :]: the rows whose leading levels have the labels;
\* the levels looked up are dropped from the result.
loc_tuple(df, key) ==
    LET rest == SubSeq(df.index, Len(key) + 1, Len(df.index))
        hit  == SelectSeq(df.rows, LAMBDA r : \A i \in DOMAIN key : r[df.index[i]] = key[i])
    IN  [df EXCEPT !.index = rest,
                   !.rows = [i \in DOMAIN hit |->
                                [n \in Range(rest) \cup Range(df.columns) |-> hit[i][n]]]]

\* whole_tsdf_singleweek_store5 = whole_tsdf.loc[('1990-06-20 23:59:59', 5,), :]
SliceSingleWeek ==
    /\ pc = "loc_singleweek"
    /\ LET key == <<to_datetime(1990, 6, 20, 23, 59, 59), 5>>
       IN  IF loc_tuple(Obj("whole_tsdf"), key).rows = <<>> THEN Raise("KeyError")
           ELSE /\ heap' = Alloc(loc_tuple(Obj("whole_tsdf"), key))
                /\ env' = Bind(env, "whole_tsdf_singleweek_store5", NewRef)
                /\ pc' = "loc_tropicana"
                /\ UNCHANGED csv

\* '1990-06':'1990-09'
Summer90 == Slice(MonthStart(1990, 6), MonthEnd(1990, 9))

\* whole_tsdf.loc[pd.IndexSlice['1990-06':'1990-09', 5, 'tropicana'], :]
SliceTropicana ==
    LocStmt("loc_tropicana", "loc_store5", "whole_tsdf_tropicana_store5_summer90",
            <<Summer90, Label(5), Label("tropicana")>>)

\* whole_tsdf.loc[pd.IndexSlice['1990-06':'1990-09', 5], :]
SliceStore5 ==
    LocStmt("loc_store5", "loc_summer", "whole_tsdf_store5_summer90",
            <<Summer90, Label(5)>>)

\* whole_tsdf.loc[pd.IndexSlice['1990-06':'1990-09',], :]
SliceSummer ==
    LocStmt("loc_summer", "loc_mm", "whole_tsdf_summer90", <<Summer90>>)

\* whole_tsdf.loc(axis=0)[:, 5, ['minute.maid']]
SliceMinuteMaid ==
    LocStmt("loc_mm", "groupby", "whole_tsdf_mm",
            <<All, Label(5), Labels({"minute.maid"})>>)

(***************************************************************************)
(* Cells "Aggregation with TimeSeriesDataFrame".                           *)
(***************************************************************************)
\* df.groupby(by): the rows of each key, in their order.
groupby(df, by) ==
    [by      |-> by,
     columns |-> df.columns,
     groups  |-> [k \in {Key(r, by) : r \in Range(df.rows)} |->
                     SelectSeq(df.rows, LAMBDA r : Key(r, by) = k)]]

\* A grouping by the grain columns where the group columns are asked for.
groupby_group_by_grain(df) == groupby(df, df.meta.grain_colnames)

\* TimeSeriesDataFrame.groupby_grain(), groupby_group()
groupby_grain(df) == groupby(df, df.meta.grain_colnames)
groupby_group(df) == groupby(df, df.meta.group_colnames)

\* grouped[[c1, ...]]
select(grouped, cols) == [grouped EXCEPT !.columns = cols]

\* grouped.sum(): for each key the sum of each selected column.
sum(grouped) ==
    [k \in DOMAIN grouped.groups |->
        [c \in Range(grouped.columns) |->
            SeqSum([i \in DOMAIN grouped.groups[k] |-> grouped.groups[k][i][c]])]]

\* tsdf_groupby = whole_tsdf.groupby(['store', 'brand'])
Groupby ==
    /\ pc = "groupby"
    /\ IF HasNames("groupby")
       THEN /\ env' = Bind(env, "tsdf_groupby",
                           groupby(Obj("whole_tsdf"), <<"store", "brand">>))
            /\ pc' = "revenue"
            /\ UNCHANGED <<csv, heap>>
       ELSE Raise("KeyError")

\* whole_tsdf['revenue'] = whole_tsdf.price * whole_tsdf.quantity
AddRevenue ==
    /\ pc = "revenue"
    /\ IF HasNames("revenue")
       THEN /\ Update("whole_tsdf", SetColumn(Obj("whole_tsdf"), "revenue",
                                              [r \in Range(Obj("whole_tsdf").rows) |-> r.price * r.quantity]))
            /\ pc' = "groupby_grain_sum"
            /\ UNCHANGED <<csv, env>>
       ELSE Raise("KeyError")

\* whole_tsdf.groupby_grain()[['revenue']].sum(), the output of the cell
GroupbyGrainSum ==
    /\ pc = "groupby_grain_sum"
    /\ IF HasNames("groupby_grain_sum")
       THEN /\ env' = Bind(env, "Out",
                           sum(select(groupby_grain(Obj("whole_tsdf")), <<"revenue">>)))
            /\ pc' = "groupby_group"
            /\ UNCHANGED <<csv, heap>>
       ELSE Raise("KeyError")

\* whole_tsdf_groupby_group = whole_tsdf.groupby_group()[['revenue']]
GroupbyGroup ==
    /\ pc = "groupby_group"
    /\ IF HasNames("groupby_group")
       THEN /\ env' = Bind(env, "whole_tsdf_groupby_group",
                           select(groupby_group(Obj("whole_tsdf")), <<"revenue">>))
            /\ pc' = "groupby_grain"
            /\ UNCHANGED <<csv, heap>>
       ELSE Raise("KeyError")

\* tsdf_groupby_grain = whole_tsdf.groupby_grain()
GroupbyGrain ==
    /\ pc = "groupby_grain"
    /\ env' = Bind(env, "tsdf_groupby_grain", groupby_grain(Obj("whole_tsdf")))
    /\ pc' = "copy"
    /\ UNCHANGED <<csv, heap>>

(***************************************************************************)
(* Cell "Computing total sales in a store in a given month of a year".     *)
(***************************************************************************)
store_val == 2
new_colname == "yearmonth"
\* year_month = str(year) + str(month), with year = '1990' and month = '08'
year_month == <<1, 9, 9, 0>> \o <<0, 8>>

\* df_tmp = whole_tsdf.copy()
Clone ==
    /\ pc = "copy"
    /\ heap' = Alloc(Obj("whole_tsdf"))
    /\ env' = Bind(env, "df_tmp", NewRef)
    /\ pc' = "assign"
    /\ UNCHANGED csv

\* df_tmp = df_tmp.assign(yearmonth=lambda x: df_tmp.index.get_level_values(0)):
\* a new frame with the values of the first index level as column yearmonth.
AssignYearmonth ==
    /\ pc = "assign"
    /\ heap' = Alloc(SetColumn(Obj("df_tmp"), new_colname,
                               [r \in Range(Obj("df_tmp").rows) |-> r[Obj("df_tmp").index[1]]]))
    /\ env' = Bind(env, "df_tmp", NewRef)
    /\ pc' = "strftime"
    /\ UNCHANGED csv

\* The reformatted column is written to whole_tsdf.
ReformatYearmonth_of_whole_tsdf ==
    /\ pc = "strftime"
    /\ Update("whole_tsdf", SetColumn(Obj("df_tmp"), new_colname,
                                      [r \in Range(Obj("df_tmp").rows) |-> strftime_Ym(r[new_colname])]))
    /\ pc' = "monthly_total"
    /\ UNCHANGED <<csv, env>>

\* df_tmp[new_colname] = df_tmp[new_colname].apply(lambda z: z.strftime('%Y%m'))
ReformatYearmonth ==
    /\ pc = "strftime"
    /\ IF HasNames("strftime")
       THEN /\ Update("df_tmp", SetColumn(Obj("df_tmp"), new_colname,
                                          [r \in Range(Obj("df_tmp").rows) |-> strftime_Ym(r[new_colname])]))
            /\ pc' = "monthly_total"
            /\ UNCHANGED <<csv, env>>
       ELSE Raise("KeyError")

\* The elements of a set of keys, in some order.
RECURSIVE SetToSeq(_)
SetToSeq(S) ==
    IF S = {} THEN <<>>
    ELSE LET x == CHOOSE y \in S : TRUE IN <<x>> \o SetToSeq(S \ {x})

\* grouped.agg({col: np.sum}): a frame indexed by the keys, in their order,
\* with the sum of the column.
agg_sum(grouped, col) ==
    LET keys == SetToSeq(DOMAIN grouped.groups)
        rows == [i \in DOMAIN keys |->
                    [n \in Range(grouped.by) \cup {col} |->
                        IF n = col
                        THEN SeqSum([j \in DOMAIN grouped.groups[keys[i]] |->
                                        grouped.groups[keys[i]][j][col]])
                        ELSE LET l == CHOOSE l \in DOMAIN grouped.by : grouped.by[l] = n
                             IN  keys[i][l]]]
    IN  DataFrame(grouped.by, <<col>>, SortRows(rows, grouped.by))

\* df_tmp = df_tmp.groupby(['store',new_colname]).agg({'revenue': np.sum})
\*                .loc[pd.IndexSlice[store_val, year_month], :]
MonthlyTotal ==
    /\ pc = "monthly_total"
    /\ LET total == agg_sum(groupby(Obj("df_tmp"), <<"store", new_colname>>), "revenue")
           crit  == <<Label(store_val), Label(year_month)>>
       IN  IF ~HasNames("monthly_total") \/ MissingLabel(total, crit)
           THEN Raise("KeyError")
           ELSE /\ heap' = Alloc(loc(total, crit))
                /\ env' = Bind(env, "df_tmp", NewRef)
                /\ pc' = "weather"
                /\ UNCHANGED csv

(***************************************************************************)
(* Cell "Merge operations with TimeSeriesDataFrame".                       *)
(***************************************************************************)
WeatherColumns == <<"TEMP", "DEWP", "SLP", "WDSP", "PRCP">>

\* get_a_year_of_daily_weather_data(year): daily records keyed by their
\* date YEARMODA; in the model a year has n records, five days apart, from
\* 14 June on (1990-06-14 is the first day of the sales week 40).
get_a_year_of_daily_weather_data(year, n) ==
    DataFrame(<<"YEARMODA">>, WeatherColumns,
              [i \in 1..n |->
                  [YEARMODA |-> to_datetime(year, 6, 14, 0, 0, 0) + 5 * (i - 1) * SecondsPerDay,
                   TEMP |-> 30 + i + (year % 10), DEWP |-> 20 + i, SLP |-> 1000 + i,
                   WDSP |-> 5 + i, PRCP |-> i - 1]])

\* weather_1990 = ..., weather_1991 = ..., weather_1992 = ...
LoadWeather ==
    /\ pc = "weather"
    /\ \E n \in 1..MaxDays :
          heap' = heap \o <<get_a_year_of_daily_weather_data(1990, n),
                            get_a_year_of_daily_weather_data(1991, n),
                            get_a_year_of_daily_weather_data(1992, n)>>
    /\ env' = Bind(Bind(Bind(env, "weather_1990", Len(heap) + 1),
                        "weather_1991", Len(heap) + 2),
                   "weather_1992", Len(heap) + 3)
    /\ pc' = "weather_concat"
    /\ UNCHANGED csv

\* weather_all = pd.concat([weather_1990, weather_1991, weather_1992])
ConcatWeather ==
    /\ pc = "weather_concat"
    /\ heap' = Alloc(concat(<<Obj("weather_1990"), Obj("weather_1991"), Obj("weather_1992")>>))
    /\ env' = Bind(env, "weather_all", NewRef)
    /\ pc' = "reset_index"
    /\ UNCHANGED csv

\* df.reset_index(): the index levels become the first columns, and the
\* index becomes the unnamed range 0, 1, ...
reset_index(df) ==
    [df EXCEPT !.index = <<None>>,
               !.columns = df.index \o @,
               !.rows = [i \in DOMAIN df.rows |->
                            [n \in DOMAIN df.rows[i] \cup {None} |->
                                IF n = None THEN i - 1 ELSE df.rows[i][n]]]]

\* weather_all.reset_index(inplace=True)
ResetIndex ==
    /\ pc = "reset_index"
    /\ Update("weather_all", reset_index(Obj("weather_all")))
    /\ pc' = "weather_subset"
    /\ UNCHANGED <<csv, env>>

\* weather_all = weather_all[['TEMP', 'DEWP', 'WDSP', 'PRCP']]
SubsetWeather ==
    /\ pc = "weather_subset"
    /\ IF {"TEMP", "DEWP", "WDSP", "PRCP"} \subseteq Range(Obj("weather_all").columns)
       THEN /\ heap' = Alloc(SelectColumns(Obj("weather_all"),
                                           <<"TEMP", "DEWP", "WDSP", "PRCP">>))
            /\ env' = Bind(env, "weather_all", NewRef)
            /\ pc' = "weather_WeekLastDay"
            /\ UNCHANGED csv
       ELSE Raise("KeyError")

\* math.floor(x / 7) rounded towards zero instead.
floor_div_7_truncating(x) == IF x >= 0 THEN x \div 7 ELSE -((-x) \div 7)

\* math.floor(x / 7)
floor_div_7(x) == x \div 7

\* The week key of the daily date d:
\* weekZeroEnd + timedelta(weeks=math.floor(n.days/7)), n = d - weekZeroStart
WeatherWeekLastDay(d) ==
    weekZeroEnd + timedelta(floor_div_7(days(d - weekZeroStart)))

\* A missing value, and the mean of a sequence of numbers as a fraction.
NaN == [num |-> 0, den |-> 0]
mean(values) == [num |-> SeqSum(values), den |-> Len(values)]

\* df.groupby(by).mean(): a frame indexed by the keys, in their order, with
\* the mean of every column.
groupby_mean(df, by) ==
    LET grouped == groupby(df, <<by>>)
        keys    == SetToSeq(DOMAIN grouped.groups)
        columns == SelectSeq(df.columns, LAMBDA c : c # by)
        rows    == [i \in DOMAIN keys |->
                       [n \in Range(columns) \cup {by} |->
                           IF n = by THEN keys[i][1]
                           ELSE mean([j \in DOMAIN grouped.groups[keys[i]] |->
                                         grouped.groups[keys[i]][j][n]])]]
    IN  DataFrame(<<by>>, columns, SortRows(rows, <<by>>))

\* left.merge(right, how='left', on=on): every row of left, in order, once
\* for each row of right with the same value of on, and once with missing
\* values when right has none; the index is that of left.
RECURSIVE merge_rows(_, _, _, _)
merge_rows(lrows, right, on, new_columns) ==
    IF lrows = <<>> THEN <<>>
    ELSE LET l       == Head(lrows)
             matches == SelectSeq(right.rows, LAMBDA r : r[on] = l[on])
             joined  == IF matches = <<>>
                        THEN <<[n \in DOMAIN l \cup new_columns |->
                                   IF n \in DOMAIN l THEN l[n] ELSE NaN]>>
                        ELSE [i \in DOMAIN matches |->
                                 [n \in DOMAIN l \cup new_columns |->
                                     IF n \in DOMAIN l THEN l[n] ELSE matches[i][n]]]
         IN  joined \o merge_rows(Tail(lrows), right, on, new_columns)

merge(left, right, on) ==
    [left EXCEPT !.columns = @ \o right.columns,
                 !.rows = merge_rows(@, right, on, Range(right.columns))]

\* The rest of the cell:
\*   weather_all['WeekLastDay'] = pd.Series(
\*       weather_all.index.get_level_values('YEARMODA') - weekZeroStart,
\*       index=weather_all.index.get_level_values('YEARMODA')).apply(...)
\*   weather_all = weather_all.groupby('WeekLastDay').mean()
\*   weather_all = TimeSeriesDataFrame(weather_all, time_colname='WeekLastDay')
\*   whole_tsdf = whole_tsdf.merge(weather_all, how='left', on='WeekLastDay')
\* The look-up of an index level the index does not have raises KeyError,
\* and the statements after it do not run.
WeekLastDayAndMerge ==
    /\ pc = "weather_WeekLastDay"
    /\ IF "YEARMODA" \notin Range(Obj("weather_all").index)
       THEN Raise("KeyError")
       ELSE LET daily  == SetColumn(Obj("weather_all"), "WeekLastDay",
                                    [r \in Range(Obj("weather_all").rows) |-> WeatherWeekLastDay(r.YEARMODA)])
                weekly == groupby_mean(daily, "WeekLastDay")
                tsdf   == TimeSeriesDataFrame(weekly, <<>>, "WeekLastDay", None, <<>>)
                merged == merge(Obj("whole_tsdf"), tsdf, "WeekLastDay")
            IN  /\ heap' = [heap EXCEPT ![env.weather_all] = daily] \o <<weekly, tsdf, merged>>
                /\ env' = Bind(Bind(env, "weather_all", Len(heap) + 2),
                               "whole_tsdf", Len(heap) + 3)
                /\ pc' = "done"
                /\ UNCHANGED csv

(***************************************************************************)
(* Specifications.                                                         *)
(***************************************************************************)
EmptyEnv == [n \in {} |-> 0]

Start == pc = "read_csv" /\ heap = <<>> /\ env = EmptyEnv

\* The load cell alone, on files around the chunk boundaries.
InitLoad == Start /\ csv \in LongFiles
NextLoad == LoadCell
SpecLoad == InitLoad /\ [][NextLoad]_vars

\* The notebook, on the small sales files.
Init == Start /\ csv \in SmallFiles
Next ==
    \/ LoadCell
    \/ AddQuantity \/ AddWeekFirstDay \/ AddWeekLastDay
    \/ CreateTSDF
    \/ Show
    \/ AddDefaultcol \/ AddPurchimpact \/ AddIsprofitable \/ AddTaxamount
    \/ DropColumns \/ Subset
    \/ SortIndex \/ SliceSingleWeek
    \/ SliceTropicana \/ SliceStore5 \/ SliceSummer \/ SliceMinuteMaid
    \/ Groupby \/ AddRevenue \/ GroupbyGrainSum \/ GroupbyGroup \/ GroupbyGrain
    \/ Clone \/ AssignYearmonth \/ ReformatYearmonth \/ MonthlyTotal
    \/ LoadWeather \/ ConcatWeather \/ ResetIndex \/ SubsetWeather
    \/ WeekLastDayAndMerge
Spec == Init /\ [][Next]_vars

\* The week key of the weather records alone, on the daily dates of
\* MaxDayOffset days before and after the start of week zero.
MaxDayOffset == 1220

InitWeek ==
    /\ pc = "week_key"
    /\ csv = <<>>
    /\ heap = <<>>
    /\ \E k \in (-MaxDayOffset)..MaxDayOffset :
          env = [YEARMODA |-> weekZeroStart + k * SecondsPerDay]

\* lambda n: weekZeroEnd + timedelta(weeks=math.floor(n.days/7)), applied
\* to the date's distance from weekZeroStart
ComputeWeekKey ==
    /\ pc = "week_key"
    /\ env' = Bind(env, "WeekLastDay", WeatherWeekLastDay(env.YEARMODA))
    /\ pc' = "week_key_done"
    /\ UNCHANGED <<csv, heap>>

NextWeek == ComputeWeekKey
SpecWeek == InitWeek /\ [][NextWeek]_vars

(***************************************************************************)
(* C5.  Loading the file in chunks of chunk_size rows gives the same       *)
(* table as loading it whole: once the chunks are concatenated,            *)
(* whole_df_chunked has the rows of whole_df, which are the file's rows,   *)
(* in the same order and with the same labels, from ceil(n / chunk_size)   *)
(* chunks.  While the loop runs the reader has consumed exactly the rows   *)
(* collected so far and never passes the end of the file.                  *)
(***************************************************************************)
ChunkRows == Flatten([i \in DOMAIN env.chunks |-> heap[env.chunks[i]].rows])

C5_ChunkedLoadEqualsWholeLoad ==
    /\ pc \in {"for_chunk", "concat"} =>
          /\ env.reader <= Len(csv)
          /\ Len(ChunkRows) = env.reader
          /\ Len(env.chunks) = (env.reader + chunk_size - 1) \div chunk_size
    /\ pc = "concat" => env.reader = Len(csv)
    /\ pc = "quantity" =>
          /\ Obj("whole_df_chunked") = Obj("whole_df")
          /\ Len(Obj("whole_df_chunked").rows) = Len(csv)
          /\ \A i \in DOMAIN csv :
                /\ Obj("whole_df_chunked").rows[i][None] = i - 1
                /\ Key(Obj("whole_df_chunked").rows[i], CsvColumns) = Key(csv[i], CsvColumns)
          /\ Len(env.chunks) = (Len(csv) + chunk_size - 1) \div chunk_size

\* A file of more than two chunks, the last one partial, has been loaded.
C5_Witness ==
    /\ pc = "quantity"
    /\ Len(env.chunks) = 3
    /\ Len(csv) % chunk_size # 0

(***************************************************************************)
(* C1.  The sales table is sorted by its index before the first slice is   *)
(* taken, and from the sort to the last slice no step changes the index    *)
(* levels, the index values or their order: every slice is taken on a      *)
(* table that is sorted on all its levels.                                 *)
(***************************************************************************)
\* The statements that slice whole_tsdf, each about to run.
SliceSteps == {"loc_singleweek", "loc_tropicana", "loc_store5", "loc_summer", "loc_mm"}

\* The index of whole_tsdf: the names of its levels and its values, in order.
IndexOfSales == <<Obj("whole_tsdf").index, IndexValues(Obj("whole_tsdf"))>>

SortedSales ==
    /\ IsSortedBy(Obj("whole_tsdf").rows, Obj("whole_tsdf").index)
    /\ lexsort_depth(Obj("whole_tsdf")) = 3

C1_SortedAtEverySlice ==
    /\ [](pc \in SliceSteps => SortedSales)
    /\ [][(pc \in SliceSteps) => (IndexOfSales' = IndexOfSales)]_vars

\* The last slice is about to run on a table whose rows came out of order
\* from the file.
C1_Witness ==
    /\ pc = "loc_mm"
    /\ ~IsSortedBy(Obj("whole_df").rows, <<"WeekLastDay", "store", "brand">>)

(***************************************************************************)
(* C2.  From its construction to the last slice the index levels of the    *)
(* sales table are, in this order, WeekLastDay, store, brand; and the      *)
(* criteria of each slice, given by position, select on these levels: the  *)
(* single-week slice holds the rows of store 5 in the week ending          *)
(* 1990-06-20 23:59:59, the tropicana slice the rows of store 5 and brand  *)
(* tropicana of summer 1990, the minute.maid slice the rows of store 5     *)
(* and brand minute.maid.                                                  *)
(***************************************************************************)
FromCreationToLastSlice ==
    {"get_level_values_brand", "head_whole_tsdf", "defaultcol", "purchimpact",
     "isprofitable", "taxamount", "drop", "subset", "sort_index"}
        \cup SliceSteps \cup {"groupby"}

InSummer90(r) ==
    MonthStart(1990, 6) <= r.WeekLastDay /\ r.WeekLastDay <= MonthEnd(1990, 9)

\* The rows of whole_tsdf that satisfy P, without the index levels in drop.
Selected(P(_), dropped) ==
    LET hit == SelectSeq(Obj("whole_tsdf").rows, P)
    IN  [i \in DOMAIN hit |-> [n \in DOMAIN hit[i] \ dropped |-> hit[i][n]]]

C2_IndexLevelsOrdinal ==
    pc \in FromCreationToLastSlice =>
       /\ Obj("whole_tsdf").index = <<"WeekLastDay", "store", "brand">>
       /\ Bound("whole_tsdf_singleweek_store5") =>
             Obj("whole_tsdf_singleweek_store5").rows =
                Selected(LAMBDA r : r.WeekLastDay = WeekLastDay(40) /\ r.store = 5,
                         {"WeekLastDay", "store"})
       /\ Bound("whole_tsdf_tropicana_store5_summer90") =>
             Obj("whole_tsdf_tropicana_store5_summer90").rows =
                Selected(LAMBDA r : InSummer90(r) /\ r.store = 5 /\ r.brand = "tropicana", {})
       /\ Bound("whole_tsdf_mm") =>
             Obj("whole_tsdf_mm").rows =
                Selected(LAMBDA r : r.store = 5 /\ r.brand = "minute.maid", {})

\* All slices are taken, and the tropicana and minute.maid slices are not empty.
C2_Witness ==
    /\ pc = "groupby"
    /\ Obj("whole_tsdf_tropicana_store5_summer90").rows # <<>>
    /\ Obj("whole_tsdf_mm").rows # <<>>
    /\ Len(Obj("whole_tsdf_singleweek_store5").rows) = 2

(***************************************************************************)
(* C3.  A level that a slice does not name is not sliced.  Once the three  *)
(* summer-1990 slices are taken, the slice (summer, store 5) holds the     *)
(* rows of (summer, store 5, any brand), the slice (summer) holds the rows *)
(* of (summer, any store, any brand), and the results are nested:          *)
(* tropicana/store 5 in store 5, in all stores, in whole_tsdf.             *)
(***************************************************************************)
C3_UnnamedLevelIsNullSlice ==
    pc \in {"loc_mm", "groupby"} =>
       LET W       == Obj("whole_tsdf")
           trop    == Obj("whole_tsdf_tropicana_store5_summer90")
           store5  == Obj("whole_tsdf_store5_summer90")
           summer  == Obj("whole_tsdf_summer90")
       IN  /\ store5 = loc(W, <<Summer90, Label(5), All>>)
           /\ store5.rows = SelectSeq(W.rows, LAMBDA r : InSummer90(r) /\ r.store = 5)
           /\ summer = loc(W, <<Summer90, All, All>>)
           /\ summer.rows = SelectSeq(W.rows, InSummer90)
           /\ Range(trop.rows) \subseteq Range(store5.rows)
           /\ Range(store5.rows) \subseteq Range(summer.rows)
           /\ Range(summer.rows) \subseteq Range(W.rows)

\* The three results are different: each slice names one level less and
\* holds more rows.
C3_Witness ==
    /\ pc = "loc_mm"
    /\ Obj("whole_tsdf_tropicana_store5_summer90").rows # <<>>
    /\ Len(Obj("whole_tsdf_store5_summer90").rows)
          > Len(Obj("whole_tsdf_tropicana_store5_summer90").rows)
    /\ Len(Obj("whole_tsdf_summer90").rows) > Len(Obj("whole_tsdf_store5_summer90").rows)

(***************************************************************************)
(* C4.  The group key (store) is coarser than the grain (store, brand):    *)
(* groupby_grain and groupby_group each put every row of the sales table   *)
(* in exactly one of their groups, every grain series lies in exactly one  *)
(* group, and for every store the revenue of its group is the sum of the   *)
(* groupby_grain revenue totals of the store's brands.                     *)
(***************************************************************************)
Revenue(rows) == SeqSum([i \in DOMAIN rows |-> rows[i].revenue])

\* The sum of f over the keys.
SumOver(keys, f) ==
    LET ks == SetToSeq(keys) IN SeqSum([i \in DOMAIN ks |-> f[ks[i]]])

\* Every one of the rows is in exactly one group.
Partitions(grouped, rows) ==
    /\ \A r \in Range(rows) :
          Cardinality({k \in DOMAIN grouped.groups : r \in Range(grouped.groups[k])}) = 1
    /\ \A k \in DOMAIN grouped.groups :
          /\ grouped.groups[k] # <<>>
          /\ Range(grouped.groups[k]) \subseteq Range(rows)
    /\ SumOver(DOMAIN grouped.groups,
               [k \in DOMAIN grouped.groups |-> Len(grouped.groups[k])]) = Len(rows)

C4_GroupCoarserThanGrain ==
    pc = "copy" =>
       LET grain == env.tsdf_groupby_grain
           group == env.whole_tsdf_groupby_group
           total == env.Out
           W     == Obj("whole_tsdf").rows
       IN  /\ grain.by = <<"store", "brand">>
           /\ group.by = <<"store">>
           /\ Partitions(grain, W)
           /\ Partitions(group, W)
           /\ \A k \in DOMAIN grain.groups :
                 Cardinality({g \in DOMAIN group.groups :
                     Range(grain.groups[k]) \subseteq Range(group.groups[g])}) = 1
           /\ DOMAIN total = DOMAIN grain.groups
           /\ \A g \in DOMAIN group.groups :
                 Revenue(group.groups[g]) =
                    SumOver({k \in DOMAIN grain.groups : k[1] = g[1]},
                            [k \in DOMAIN grain.groups |-> total[k].revenue])

\* The sales table has two stores, one of them with two brands.
C4_Witness ==
    /\ pc = "copy"
    /\ Cardinality(DOMAIN env.whole_tsdf_groupby_group.groups) = 2
    /\ \E g \in DOMAIN env.whole_tsdf_groupby_group.groups :
          Cardinality({k \in DOMAIN env.tsdf_groupby_grain.groups : k[1] = g[1]}) = 2

(***************************************************************************)
(* C6.  The monthly-total step works on a clone: from the copy to the end  *)
(* of the step no statement changes whole_tsdf, neither the object the     *)
(* variable refers to nor its rows, index and columns, and whole_tsdf has  *)
(* no yearmonth column.                                                    *)
(***************************************************************************)
SalesTable == <<env.whole_tsdf, Obj("whole_tsdf")>>

MonthlyTotalSteps == {"copy", "assign", "strftime", "monthly_total"}

C6_MonthlyTotalLeavesSalesUnchanged ==
    /\ [][(pc \in MonthlyTotalSteps) => (SalesTable' = SalesTable)]_vars
    /\ [](pc \in (MonthlyTotalSteps \ {"copy"}) \cup {"weather"} =>
             /\ new_colname \notin Names(Obj("whole_tsdf"))
             /\ env.df_tmp # env.whole_tsdf)

\* The step has run: df_tmp is the total of store 2 in August 1990.
C6_Witness ==
    /\ pc = "weather"
    /\ Len(Obj("df_tmp").rows) = 1
    /\ Obj("df_tmp").rows[1].store = store_val
    /\ Obj("df_tmp").rows[1].yearmonth = year_month
    /\ Obj("df_tmp").rows[1].revenue > 0

(***************************************************************************)
(* C7.  At the statement that computes the weather table's WeekLastDay     *)
(* column the index of weather_all has a level named YEARMODA, so that     *)
(* the look-up of that level succeeds and gives one date per row.          *)
(***************************************************************************)
C7_WeatherKeyedByDate ==
    pc = "weather_WeekLastDay" =>
       /\ "YEARMODA" \in Range(Obj("weather_all").index)
       /\ \A r \in Range(Obj("weather_all").rows) : "YEARMODA" \in DOMAIN r

(***************************************************************************)
(* C8.  The week key of a daily date d is the WeekLastDay of the sales     *)
(* week n that d lies in: with n the number of whole weeks from            *)
(* weekZeroStart to d (7n <= days < 7n + 7, also for d before              *)
(* weekZeroStart), the key is WeekLastDay(n), d lies between               *)
(* WeekFirstDay(n) and WeekLastDay(n), d lies in no other week, and the    *)
(* next week starts one second after WeekLastDay(n).                       *)
(***************************************************************************)
WeekOffsets == (-(MaxDayOffset \div 7) - 1)..(MaxDayOffset \div 7 + 1)

InWeek(d, n) == WeekFirstDay(n) <= d /\ d <= WeekLastDay(n)

C8_WeatherWeekKeyIsSalesWeekKey ==
    pc = "week_key_done" =>
       LET d     == env.YEARMODA
           whole == (d - weekZeroStart) \div SecondsPerDay
       IN  /\ (d - weekZeroStart) % SecondsPerDay = 0
           /\ \E n \in WeekOffsets :
                 /\ 7 * n <= whole /\ whole < 7 * n + 7
                 /\ env.WeekLastDay = WeekLastDay(n)
                 /\ InWeek(d, n)
                 /\ \A m \in WeekOffsets : InWeek(d, m) => m = n
                 /\ WeekFirstDay(n + 1) = WeekLastDay(n) + 1

\* The key of a date before week zero that is not a whole number of weeks
\* before its start.
C8_Witness ==
    /\ pc = "week_key_done"
    /\ env.YEARMODA < weekZeroStart
    /\ ((weekZeroStart - env.YEARMODA) \div SecondsPerDay) % 7 = 3

(***************************************************************************)
(* C9.  The left-join merge keeps every sales row exactly once: when the   *)
(* run of the last cell has ended, whole_tsdf is the merged table, with    *)
(* the four weather columns, as many rows as the sales file, and each      *)
(* sales row (week, store, brand) once.                                    *)
(***************************************************************************)
RunEnded == pc \in {"done", "KeyError", "UnsortedIndexError"}

C9_MergeKeepsEverySalesRow ==
    RunEnded =>
       LET W == Obj("whole_tsdf")
       IN  /\ {"TEMP", "DEWP", "WDSP", "PRCP"} \subseteq Range(W.columns)
           /\ Len(W.rows) = Len(csv)
           /\ \A i \in DOMAIN csv :
                 Cardinality({j \in DOMAIN W.rows :
                     Key(W.rows[j], W.index) =
                        <<WeekLastDay(csv[i].week), csv[i].store, csv[i].brand>>}) = 1

(***************************************************************************)
(* C10.  Every column or index level of the sales table that a statement   *)
(* names is in the table when the statement runs.  From the drop on the    *)
(* table has purchimpact and taxamount and neither defaultcol nor          *)
(* isprofitable, so no later statement reads a dropped column; the drop    *)
(* leaves the other columns, and the rows under them, as they were.        *)
(***************************************************************************)
Dropped == {"defaultcol", "isprofitable"}

DropKeepsOthers ==
    LET before == Obj("whole_tsdf")
        after  == Obj("whole_tsdf")'
    IN  /\ after.index = before.index
        /\ after.columns = SelectSeq(before.columns, LAMBDA c : c \notin Dropped)
        /\ Len(after.rows) = Len(before.rows)
        /\ \A i \in DOMAIN before.rows :
              \A n \in Names(before) \ Dropped : after.rows[i][n] = before.rows[i][n]

C10_ColumnsPresentWhenRead ==
    /\ [](pc \in DOMAIN Reads => HasNames(pc))
    /\ [](Bound("whole_tsdf") =>
             /\ Obj("whole_tsdf").meta.ts_value_colname = "quantity"
             /\ Obj("whole_tsdf").meta.time_colname = "WeekLastDay"
             /\ {"quantity", "WeekLastDay"} \subseteq Names(Obj("whole_tsdf")))
    /\ [](pc = "subset" \/ Bound("whole_tsdf_subset") =>
             /\ {"purchimpact", "taxamount"} \subseteq Range(Obj("whole_tsdf").columns)
             /\ Dropped \cap Names(Obj("whole_tsdf")) = {}
             /\ pc \in DOMAIN Reads => Reads[pc].names \cap Dropped = {})
    /\ [][(pc = "drop") => DropKeepsOthers]_vars

\* All aggregations are done, on a table that has the revenue column.
C10_Witness ==
    /\ pc = "weather"
    /\ "revenue" \in Range(Obj("whole_tsdf").columns)
    /\ Bound("Out")

====
